---------------------------- MODULE Spec2Model ----------------------------
(***************************************************************************)
(* A model of main.py: the FastAPI backend that proxies a video search to  *)
(* the YouTube Data API (youtube_search), converts ISO-8601 durations      *)
(* (iso8601_to_hms) and probes an optional database module                 *)
(* (test_database).                                                        *)
(*                                                                         *)
(* Python values are modelled as follows: None is the string None, a str   *)
(* that is inspected character by character is a sequence of one-character *)
(* strings, a dict is a function whose domain is its set of keys, a list   *)
(* is a sequence.                                                          *)
(***************************************************************************)
EXTENDS Integers, Sequences, FiniteSets, TLC

VARIABLES
    env,        \* os.environ: the variables the handlers read
    pc,         \* per request: where youtube_search is
    q,          \* per request: the q query parameter as received
    maxResults, \* per request: the maxResults query parameter as received
    api_key,    \* per request: local api_key
    s_res,      \* per request: the search call's response
    ids,        \* per request: local ids
    v_res,      \* per request: the detail-lookup call's response
    response,   \* per request: what the caller receives
    calls,      \* per request: the outbound requests.get calls made, in order
    duration,   \* the argument of iso8601_to_hms
    hms,        \* the value iso8601_to_hms returned
    thumbs,     \* snippet["thumbnails"] of one detail record
    thumb,      \* the "thumb" field built from it
    database,   \* what `from database import db` and db do in this process
    probe       \* what GET /test answered

vars == <<env, pc, q, maxResults, api_key, s_res, ids, v_res, response, calls,
          duration, hms, thumbs, thumb, database, probe>>

searchVars == <<env, pc, q, maxResults, api_key, s_res, ids, v_res, response, calls>>

-----------------------------------------------------------------------------
(* Python values *)

None == "None"

\* bool(v) of a str-or-None value
Truthy(v) == v \notin {None, ""}

\* a or b, on str-or-None values
PyOr(a, b) == IF Truthy(a) THEN a ELSE b

\* d.get(k), for a dict whose values are str
Get(d, k) == IF k \in DOMAIN d THEN d[k] ELSE None

EmptyDict == [k \in {} |-> None]

Min(a, b) == IF a < b THEN a ELSE b

\* s[:n]
Take(s, n) == SubSeq(s, 1, Min(n, Len(s)))

-----------------------------------------------------------------------------
(* iso8601_to_hms *)

Digits == {"0", "1", "2", "3", "4", "5", "6", "7", "8", "9"}

DigitVal(c) ==
    CASE c = "0" -> 0 [] c = "1" -> 1 [] c = "2" -> 2 [] c = "3" -> 3
      [] c = "4" -> 4 [] c = "5" -> 5 [] c = "6" -> 6 [] c = "7" -> 7
      [] c = "8" -> 8 [] c = "9" -> 9

DigitChar(n) ==
    CASE n = 0 -> "0" [] n = 1 -> "1" [] n = 2 -> "2" [] n = 3 -> "3"
      [] n = 4 -> "4" [] n = 5 -> "5" [] n = 6 -> "6" [] n = 7 -> "7"
      [] n = 8 -> "8" [] n = 9 -> "9"

\* int(s) of a string of digits
RECURSIVE ParseInt(_)
ParseInt(s) ==
    IF s = <<>> THEN 0
    ELSE 10 * ParseInt(SubSeq(s, 1, Len(s) - 1)) + DigitVal(s[Len(s)])

\* f"{n}"
RECURSIVE Dec(_)
Dec(n) == IF n < 10 THEN <<DigitChar(n)>> ELSE Dec(n \div 10) \o <<DigitChar(n % 10)>>

\* f"{n:02d}"
Dec02(n) == IF n < 10 THEN <<"0">> \o Dec(n) ELSE Dec(n)

\* \d+ from position i: the position after the longest run of digits
RECURSIVE DigitsEnd(_, _)
DigitsEnd(s, i) == IF i <= Len(s) /\ s[i] \in Digits THEN DigitsEnd(s, i + 1) ELSE i

\* (?:(\d+)U)? tried at position i: the group's text (None when the group
\* did not take part) and the position the match continues from
OptGroup(s, i, unit) ==
    LET j == DigitsEnd(s, i) IN
    IF j > i /\ j <= Len(s) /\ s[j] = unit
    THEN [group |-> SubSeq(s, i, j - 1), next |-> j + 1]
    ELSE [group |-> <<>>, next |-> i]

\* int(m.group(k) or 0)
GroupInt(g) == IF g = <<>> THEN 0 ELSE ParseInt(g)

\* re.match(r"PT(?:(\d+)H)?(?:(\d+)M)?(?:(\d+)S)?", duration): anchored at the
\* start only
ReMatch(s) ==
    IF Len(s) >= 2 /\ s[1] = "P" /\ s[2] = "T"
    THEN LET gh == OptGroup(s, 3, "H")
             gm == OptGroup(s, gh.next, "M")
             gs == OptGroup(s, gm.next, "S")
         IN [matched |-> TRUE, g1 |-> gh.group, g2 |-> gm.group, g3 |-> gs.group]
    ELSE [matched |-> FALSE, g1 |-> <<>>, g2 |-> <<>>, g3 |-> <<>>]

iso8601_to_hms(d) ==
    LET m == ReMatch(d) IN
    IF ~m.matched THEN <<"0", ":", "0", "0">>
    ELSE LET h == GroupInt(m.g1)
             mi == GroupInt(m.g2)
             s == GroupInt(m.g3)
             total == h * 3600 + mi * 60 + s
             hh == total \div 3600
             mm == (total % 3600) \div 60
             ss == total % 60
         IN IF hh # 0
            THEN Dec(hh) \o <<":">> \o Dec02(mm) \o <<":">> \o Dec02(ss)
            ELSE Dec(mm) \o <<":">> \o Dec02(ss)

-----------------------------------------------------------------------------
(* youtube_search: the request and the two upstream calls *)

MinLength == 1
MinResults == 1
MaxResults == 25
DefaultResults == 12
Timeout == 15
StatusOK == 200
StatusNoKey == 500
StatusUnprocessable == 422
StatusInternalError == 500

SearchUrl == "https://www.googleapis.com/youtube/v3/search"
VideosUrl == "https://www.googleapis.com/youtube/v3/videos"

\* The q values a client sends: None is a request without q. Only the length
\* of q is inspected, so q is a Python str kept whole.
QLen(s) == IF s = "" THEN 0 ELSE 1

\* maxResults as received: given is FALSE for a request without it
MaxResultsValue(mp) == IF mp.given THEN mp.value ELSE DefaultResults

\* q: str = Query(..., min_length=1), maxResults: int = Query(12, ge=1, le=25):
\* FastAPI checks both before the function body runs
\* Query(...) without min_length
ValidQAnyLength(qp) == qp # None

ValidQ(qp) == qp # None /\ QLen(qp) >= MinLength

\* le=25 read as "fewer than 26 or 26"
ValidMaxResultsOffByOne(mp) ==
    MaxResultsValue(mp) >= MinResults /\ MaxResultsValue(mp) <= MaxResults + 1

ValidMaxResults(mp) == MaxResultsValue(mp) >= MinResults /\ MaxResultsValue(mp) <= MaxResults

ValidRequest(qp, mp) == ValidQ(qp) /\ ValidMaxResults(mp)

\* os.getenv("YT_API_KEY") or os.getenv("YOUTUBE_API_KEY")
ApiKey(e) == PyOr(e.YT_API_KEY, e.YOUTUBE_API_KEY)

\* if api_key is None:
KeyIsNone(key) == key = None

\* if not api_key:
KeyMissing(key) == ~Truthy(key)

NoResponse == [status |-> 0, detail |-> None, query |-> None, items |-> <<>>]

NoUpstream == [status_code |-> 0, text |-> None, items |-> <<>>]

\* raise HTTPException(status_code=502, detail="upstream error")
HTTPExceptionBadGateway(code, text) ==
    [status |-> 502, detail |-> "upstream error", query |-> None, items |-> <<>>]

\* raise HTTPException(status_code=..., detail=...)
HTTPException(code, text) == [status |-> code, detail |-> text, query |-> None, items |-> <<>>]

\* return {"query": q, "items": items}
Returned(qp, its) == [status |-> StatusOK, detail |-> None, query |-> qp, items |-> its]

\* d.get(k, {}), for a dict whose values are dicts
GetDict(d, k) == IF k \in DOMAIN d THEN d[k] ELSE EmptyDict

\* item.get("id", {}).get("videoId")
VideoIdOf(item) == Get(GetDict(item, "id"), "videoId")

\* the comprehension with the condition `"videoId" in item.get("id", {})`
ExtractIdsKeepEmpty(its) ==
    LET kept == SelectSeq(its, LAMBDA item : "videoId" \in DOMAIN GetDict(item, "id"))
    IN [n \in 1..Len(kept) |-> kept[n]["id"]["videoId"]]

\* [item["id"]["videoId"] for item in s_data.get("items", []) if item.get("id", {}).get("videoId")]
ExtractIds(its) ==
    LET kept == SelectSeq(its, LAMBDA item : Truthy(VideoIdOf(item)))
    IN [n \in 1..Len(kept) |-> kept[n]["id"]["videoId"]]

\* ",".join(ids)
RECURSIVE Join(_)
Join(l) ==
    IF Len(l) = 0 THEN <<>>
    ELSE IF Len(l) = 1 THEN <<l[1]>>
    ELSE <<l[1], ",">> \o Join(Tail(l))

SearchCall(qp, mp, key) ==
    [url |-> SearchUrl,
     params |-> [part |-> "snippet", type |-> "video", maxResults |-> MaxResultsValue(mp),
                 q |-> qp, key |-> key],
     timeout |-> Timeout]

\* the detail lookup sent to search_url
VideosCallToSearchUrl(idl, key) ==
    [url |-> SearchUrl,
     params |-> [part |-> "snippet,contentDetails,statistics", id |-> Join(idl), key |-> key],
     timeout |-> Timeout]

VideosCall(idl, key) ==
    [url |-> VideosUrl,
     params |-> [part |-> "snippet,contentDetails,statistics", id |-> Join(idl), key |-> key],
     timeout |-> Timeout]

\* thumbs.get(k), as a truth value: an absent entry and an empty one are falsy
HasThumb(t, k) == k \in DOMAIN t /\ DOMAIN t[k] # {}

\* the chain written thumbs.get("high") or thumbs.get("maxres") or ...
BestThumbHighFirst(t) ==
    IF HasThumb(t, "high") THEN t["high"]
    ELSE IF HasThumb(t, "maxres") THEN t["maxres"]
    ELSE IF HasThumb(t, "medium") THEN t["medium"]
    ELSE IF HasThumb(t, "default") THEN t["default"]
    ELSE EmptyDict

\* thumbs.get("maxres") or thumbs.get("high") or thumbs.get("medium") or thumbs.get("default") or {}
BestThumb(t) ==
    IF HasThumb(t, "maxres") THEN t["maxres"]
    ELSE IF HasThumb(t, "high") THEN t["high"]
    ELSE IF HasThumb(t, "medium") THEN t["medium"]
    ELSE IF HasThumb(t, "default") THEN t["default"]
    ELSE EmptyDict

\* best_thumb.get("url")
ThumbUrl(t) == Get(BestThumb(t), "url")

\* cd.get("duration", "PT0S")
DurationOf(cd) == IF "duration" \in DOMAIN cd THEN cd["duration"] ELSE <<"P", "T", "0", "S">>

\* the dict stored in details[vid] for one record of v_data["items"]
Summary(it) ==
    LET snippet == GetDict(it, "snippet")
        stats == GetDict(it, "statistics")
        cd == GetDict(it, "contentDetails")
    IN [id |-> Get(it, "id"),
        title |-> Get(snippet, "title"),
        channel |-> Get(snippet, "channelTitle"),
        publishedAt |-> Get(snippet, "publishedAt"),
        thumb |-> ThumbUrl(GetDict(snippet, "thumbnails")),
        duration |-> iso8601_to_hms(DurationOf(cd)),
        views |-> Get(stats, "viewCount")]

\* details = {}; for it in v_data.get("items", []): details[it.get("id")] = {...}
\* A Python dict keeps its keys in insertion order (keys), and an assignment
\* to a key it holds replaces the value in place.
RECURSIVE BuildDetails(_)
BuildDetails(its) ==
    IF its = <<>> THEN [keys |-> <<>>, value |-> EmptyDict]
    ELSE LET prev == BuildDetails(SubSeq(its, 1, Len(its) - 1))
             it == its[Len(its)]
             vid == Get(it, "id")
         IN [keys |-> IF vid \in DOMAIN prev.value THEN prev.keys ELSE Append(prev.keys, vid),
             value |-> [k \in DOMAIN prev.value \cup {vid} |->
                           IF k = vid THEN Summary(it) ELSE prev.value[k]]]

\* items = list(details.values()) restricted to ids: the detail response's order
ItemsInDetailOrder(idl, details) ==
    LET present == SelectSeq(details.keys, LAMBDA k : \E n \in 1..Len(idl) : idl[n] = k)
    IN [n \in 1..Len(present) |-> details.value[present[n]]]

\* [details[i] for i in ids if i in details]
Items(idl, details) ==
    LET present == SelectSeq(idl, LAMBDA i : i \in DOMAIN details.value)
    IN [n \in 1..Len(present) |-> details.value[present[n]]]

-----------------------------------------------------------------------------
(* The actions of youtube_search. requests.get blocks the handler, so a     *)
(* request is observable before it, between the two calls and after it.     *)

Requests == DOMAIN pc

\* GET /api/youtube/search arrives: parameter validation, the credential
\* check, and the search call is sent
Receive(r, qp, mp) ==
    /\ pc[r] = "idle"
    /\ q' = [q EXCEPT ![r] = qp]
    /\ maxResults' = [maxResults EXCEPT ![r] = mp]
    /\ IF ~ValidRequest(qp, mp)
       THEN /\ response' = [response EXCEPT ![r] =
                                HTTPException(StatusUnprocessable, "validation error")]
            /\ pc' = [pc EXCEPT ![r] = "done"]
            /\ UNCHANGED <<api_key, calls>>
       ELSE /\ api_key' = [api_key EXCEPT ![r] = ApiKey(env)]
            /\ IF KeyMissing(ApiKey(env))
               THEN /\ response' = [response EXCEPT ![r] =
                                        HTTPException(StatusNoKey, "YouTube API key not configured")]
                    /\ pc' = [pc EXCEPT ![r] = "done"]
                    /\ UNCHANGED calls
               ELSE /\ calls' = [calls EXCEPT ![r] = Append(@, SearchCall(qp, mp, ApiKey(env)))]
                    /\ pc' = [pc EXCEPT ![r] = "search"]
                    /\ UNCHANGED response
    /\ UNCHANGED <<env, s_res, ids, v_res>>
    /\ UNCHANGED <<duration, hms, thumbs, thumb, database, probe>>

\* the search call returns res
SearchReturn(r, res) ==
    /\ pc[r] = "search"
    /\ s_res' = [s_res EXCEPT ![r] = res]
    /\ IF res.status_code # StatusOK
       THEN /\ response' = [response EXCEPT ![r] = HTTPException(res.status_code, res.text)]
            /\ pc' = [pc EXCEPT ![r] = "done"]
            /\ UNCHANGED <<ids, calls>>
       ELSE /\ ids' = [ids EXCEPT ![r] = ExtractIds(res.items)]
            /\ IF ExtractIds(res.items) = <<>>
               THEN /\ response' = [response EXCEPT ![r] = Returned(q[r], <<>>)]
                    /\ pc' = [pc EXCEPT ![r] = "done"]
                    /\ UNCHANGED calls
               ELSE /\ calls' = [calls EXCEPT ![r] =
                                     Append(@, VideosCall(ExtractIds(res.items), api_key[r]))]
                    /\ pc' = [pc EXCEPT ![r] = "videos"]
                    /\ UNCHANGED response
    /\ UNCHANGED <<env, q, maxResults, api_key, v_res>>
    /\ UNCHANGED <<duration, hms, thumbs, thumb, database, probe>>

\* the detail-lookup call returns res
VideosReturn(r, res) ==
    /\ pc[r] = "videos"
    /\ v_res' = [v_res EXCEPT ![r] = res]
    /\ IF res.status_code # StatusOK
       THEN response' = [response EXCEPT ![r] = HTTPException(res.status_code, res.text)]
       ELSE response' = [response EXCEPT ![r] =
                             Returned(q[r], Items(ids[r], BuildDetails(res.items)))]
    /\ pc' = [pc EXCEPT ![r] = "done"]
    /\ UNCHANGED <<env, q, maxResults, api_key, s_res, ids, calls>>
    /\ UNCHANGED <<duration, hms, thumbs, thumb, database, probe>>

\* requests.get raises (timeout=15 expired, no connection): nothing in
\* youtube_search catches it and the server answers 500
TransportError(r) ==
    /\ pc[r] \in {"search", "videos"}
    /\ response' = [response EXCEPT ![r] =
                        HTTPException(StatusInternalError, "Internal Server Error")]
    /\ pc' = [pc EXCEPT ![r] = "done"]
    /\ UNCHANGED <<env, q, maxResults, api_key, s_res, ids, v_res, calls>>
    /\ UNCHANGED <<duration, hms, thumbs, thumb, database, probe>>

-----------------------------------------------------------------------------
(* What the clients, the environment and the upstream API can supply *)

MaxItems == 2       \* longest s_data["items"]
MaxRecords == 2     \* longest v_data["items"]
NumRequests == 2    \* concurrent requests

SeqsUpTo(S, n) == UNION {[1..k -> S] : k \in 0..n}

EnvValues(key) == {None, "", key}

QParams == {None, "", "cats"}

MaxResultsParams ==
    {[given |-> FALSE, value |-> 0]}
        \cup {[given |-> TRUE, value |-> n] :
                 n \in {MinResults - 1, MinResults, MaxResults, MaxResults + 1}}

\* entries of s_data["items"]: two videos, one without "id", one whose
\* videoId is empty
SearchItems ==
    {[id |-> [kind |-> "youtube#video", videoId |-> "a"]],
     [id |-> [kind |-> "youtube#video", videoId |-> "b"]],
     [kind |-> "youtube#searchResult"],
     [id |-> [kind |-> "youtube#video", videoId |-> ""]]}

\* entries of v_data["items"]: two different records of video a, one of
\* video b, one without "id"
DetailRecords ==
    {[id |-> "a",
      snippet |-> [title |-> "t1", channelTitle |-> "ch1", publishedAt |-> "2020-01-01",
                   thumbnails |-> [high |-> [url |-> "a-high"], default |-> [url |-> "a-default"]]],
      statistics |-> [viewCount |-> "10"],
      contentDetails |-> [duration |-> <<"P", "T", "9", "0", "M">>]],
     [id |-> "a",
      snippet |-> [title |-> "t2"]],
     [id |-> "b",
      snippet |-> [title |-> "t3", channelTitle |-> "ch2",
                   thumbnails |-> [maxres |-> EmptyDict, medium |-> [url |-> "b-medium"]]],
      statistics |-> [likeCount |-> "1"],
      contentDetails |-> [duration |-> <<"P", "T", "1", "H", "2", "M", "3", "S">>]],
     [snippet |-> [title |-> "t4"]]}

UpstreamErrors ==
    {[status_code |-> 403, text |-> "quotaExceeded", items |-> <<>>],
     [status_code |-> 400, text |-> "badRequest", items |-> <<>>],
     [status_code |-> 503, text |-> "", items |-> <<>>]}

Upstream200(its) == [status_code |-> StatusOK, text |-> "json", items |-> its]

SearchResponses == UpstreamErrors \cup {Upstream200(l) : l \in SeqsUpTo(SearchItems, MaxItems)}

VideosResponses == UpstreamErrors \cup {Upstream200(l) : l \in SeqsUpTo(DetailRecords, MaxRecords)}

\* reduced clients and a reduced upstream for the runs with several requests
\* in flight
FewQParams == {"", "cats"}

FewMaxResultsParams == {[given |-> FALSE, value |-> 0], [given |-> TRUE, value |-> MaxResults + 1]}

FewSearchResponses ==
    {CHOOSE e \in UpstreamErrors : e.status_code = 403}
        \cup {Upstream200(l) : l \in SeqsUpTo({i \in SearchItems : VideoIdOf(i) # ""}, 1)}
        \cup {Upstream200(<<i, j>>) : i, j \in {x \in SearchItems : Truthy(VideoIdOf(x))}}

FewVideosResponses ==
    {CHOOSE e \in UpstreamErrors : e.status_code = 503}
        \cup {Upstream200(<<d>>) : d \in {x \in DetailRecords : Get(x, "id") = "a"}}

IdleDuration == <<>>
IdleThumbs == EmptyDict
IdleDatabase == [import |-> "idle", name |-> "idle", list |-> "idle", message |-> <<>>,
                 collections |-> <<>>]
NoProbe == [status |-> 0, database |-> <<>>, database_url |-> None, database_name |-> None,
            connection_status |-> None, collections |-> <<>>, backend |-> None]

OthersIdle ==
    /\ duration = IdleDuration /\ hms = <<>>
    /\ thumbs = IdleThumbs /\ thumb = None
    /\ database = IdleDatabase /\ probe = NoProbe

InitSearch(R) ==
    /\ env \in [YT_API_KEY : EnvValues("k1"), YOUTUBE_API_KEY : EnvValues("k2"),
                DATABASE_URL : {None}, DATABASE_NAME : {None}]
    /\ pc = [r \in R |-> "idle"]
    /\ q = [r \in R |-> None]
    /\ maxResults = [r \in R |-> [given |-> FALSE, value |-> 0]]
    /\ api_key = [r \in R |-> None]
    /\ s_res = [r \in R |-> NoUpstream]
    /\ ids = [r \in R |-> <<>>]
    /\ v_res = [r \in R |-> NoUpstream]
    /\ response = [r \in R |-> NoResponse]
    /\ calls = [r \in R |-> <<>>]
    /\ OthersIdle

\* one request, the full upstream
Init == InitSearch({1})

Next ==
    \/ \E r \in Requests, qp \in QParams, mp \in MaxResultsParams : Receive(r, qp, mp)
    \/ \E r \in Requests, res \in SearchResponses : SearchReturn(r, res)
    \/ \E r \in Requests, res \in VideosResponses : VideosReturn(r, res)
    \/ \E r \in Requests : TransportError(r)

Spec == Init /\ [][Next]_vars

\* NumRequests requests in flight at once, the reduced upstream
InitConc == InitSearch(1..NumRequests)

NextConc ==
    \/ \E r \in Requests, qp \in FewQParams, mp \in FewMaxResultsParams : Receive(r, qp, mp)
    \/ \E r \in Requests, res \in FewSearchResponses : SearchReturn(r, res)
    \/ \E r \in Requests, res \in FewVideosResponses : VideosReturn(r, res)
    \/ \E r \in Requests : TransportError(r)

SpecConc == InitConc /\ [][NextConc]_vars

-----------------------------------------------------------------------------
(* Claims about youtube_search *)

\* the video ids of a search response, in its order: the entries that carry a
\* non-empty id.videoId
RECURSIVE VideoIdsOf(_)
VideoIdsOf(its) ==
    IF its = <<>> THEN <<>>
    ELSE LET h == Head(its)
             own == IF /\ "id" \in DOMAIN h
                       /\ "videoId" \in DOMAIN h["id"]
                       /\ h["id"]["videoId"] # ""
                    THEN <<h["id"]["videoId"]>> ELSE <<>>
         IN own \o VideoIdsOf(Tail(its))

\* the ids the detail-lookup response has a record of
RecordIds(recs) == {recs[n]["id"] : n \in {k \in 1..Len(recs) : "id" \in DOMAIN recs[k]}}

IdsOfItems(its) == [n \in 1..Len(its) |-> its[n].id]

Orderings(n) == {p \in [1..n -> 1..n] : \A i, j \in 1..n : p[i] = p[j] => i = j}

Permuted(l, p) == [n \in 1..Len(l) |-> l[p[n]]]

Succeeded(r) == pc[r] = "done" /\ response[r].status = StatusOK

\* C1: the items of a successful search are the video ids of the search
\* response, in that order, without the ids the detail-lookup response has
\* no record of; listing the detail records in another order gives the same
\* order of items.
C1_ItemsInSearchOrder ==
    \A r \in Requests :
        Succeeded(r) =>
            LET want == SelectSeq(VideoIdsOf(s_res[r].items),
                                  LAMBDA i : i \in RecordIds(v_res[r].items))
            IN /\ IdsOfItems(response[r].items) = want
               /\ \A p \in Orderings(Len(v_res[r].items)) :
                      IdsOfItems(Items(ids[r], BuildDetails(Permuted(v_res[r].items, p)))) = want

\* the search listed a then b, the detail lookup b then a, and the items are a then b
C1_Witness ==
    \E r \in Requests :
        /\ Succeeded(r)
        /\ VideoIdsOf(s_res[r].items) = <<"a", "b">>
        /\ Len(v_res[r].items) = 2
        /\ Get(v_res[r].items[1], "id") = "b"
        /\ Get(v_res[r].items[2], "id") = "a"
        /\ IdsOfItems(response[r].items) = <<"a", "b">>

IsVideosCall(c) == c.url = VideosUrl

IsSearchCall(c) == c.url = SearchUrl

CountCalls(r, url) == Cardinality({n \in 1..Len(calls[r]) : calls[r][n].url = url})

\* C2: a search that succeeds without a usable video id answers
\* {query, items: []} and the request makes no detail-lookup call.
C2_NoIdsNoDetailCall ==
    \A r \in Requests :
        (s_res[r].status_code = StatusOK /\ VideoIdsOf(s_res[r].items) = <<>>) =>
            /\ pc[r] = "done"
            /\ response[r].status = StatusOK
            /\ response[r].query = q[r]
            /\ response[r].items = <<>>
            /\ CountCalls(r, VideosUrl) = 0
            /\ Len(calls[r]) = 1

\* the search returned entries, none with a usable id
C2_Witness ==
    \E r \in Requests :
        /\ s_res[r].status_code = StatusOK
        /\ Len(s_res[r].items) = 2
        /\ VideoIdsOf(s_res[r].items) = <<>>
        /\ pc[r] = "done"
        /\ response[r].items = <<>>

NoCredential ==
    /\ env.YT_API_KEY \in {None, ""}
    /\ env.YOUTUBE_API_KEY \in {None, ""}

\* the request's parameters are acceptable: q of at least one character,
\* maxResults absent or within 1..25
GoodParams(r) ==
    /\ q[r] \notin {None, ""}
    /\ maxResults[r].given => (maxResults[r].value >= 1 /\ maxResults[r].value <= 25)

\* C3: without a non-empty YT_API_KEY or YOUTUBE_API_KEY no request makes an
\* outbound call, and every request that reaches the body of youtube_search
\* (its parameters passed validation) fails with status 500.
C3_NoKeyFailsBeforeCalls ==
    NoCredential =>
        \A r \in Requests :
            /\ calls[r] = <<>>
            /\ pc[r] \in {"idle", "done"}
            /\ (pc[r] = "done" /\ GoodParams(r)) => response[r].status = 500

\* YT_API_KEY is set but empty, YOUTUBE_API_KEY is unset, and a valid request failed
C3_Witness ==
    /\ env.YT_API_KEY = "" /\ env.YOUTUBE_API_KEY = None
    /\ \E r \in Requests :
          pc[r] = "done" /\ GoodParams(r) /\ response[r].status = 500 /\ calls[r] = <<>>

\* C4: a request whose q is absent or empty, or whose maxResults is outside
\* 1..25, is rejected with a client error and makes no outbound call, with
\* or without a credential.
C4_InvalidRejectedBeforeCalls ==
    \A r \in Requests :
        (pc[r] # "idle" /\ ~GoodParams(r)) =>
            /\ pc[r] = "done"
            /\ response[r].status >= 400 /\ response[r].status < 500
            /\ calls[r] = <<>>

\* maxResults = 26 with a credential configured
C4_Witness ==
    /\ ~NoCredential
    /\ \E r \in Requests :
          /\ pc[r] = "done" /\ q[r] = "cats"
          /\ maxResults[r].given /\ maxResults[r].value = 26
          /\ calls[r] = <<>> /\ response[r].status # StatusOK

UpstreamFailed(res) == res.status_code \notin {0, StatusOK}

\* C5: when the search call or the detail-lookup call returns a non-success
\* status the request fails with that status and that body, the call is not
\* repeated, and after a failed search call no detail-lookup call is made.
C5_UpstreamErrorForwarded ==
    \A r \in Requests :
        /\ UpstreamFailed(s_res[r]) =>
              /\ pc[r] = "done"
              /\ response[r].status = s_res[r].status_code
              /\ response[r].detail = s_res[r].text
              /\ Len(calls[r]) = 1 /\ IsSearchCall(calls[r][1])
        /\ UpstreamFailed(v_res[r]) =>
              /\ pc[r] = "done"
              /\ response[r].status = v_res[r].status_code
              /\ response[r].detail = v_res[r].text
              /\ Len(calls[r]) = 2 /\ IsSearchCall(calls[r][1]) /\ IsVideosCall(calls[r][2])

\* the detail lookup answered 403 quotaExceeded after a search that succeeded
C5_Witness ==
    \E r \in Requests :
        /\ s_res[r].status_code = StatusOK
        /\ v_res[r].status_code = 403
        /\ response[r].status = 403 /\ response[r].detail = "quotaExceeded"

\* C9 as stated: an invalid parameter is answered with status 400.
C9_Original_InvalidIs400 ==
    \A r \in Requests :
        (pc[r] = "done" /\ ~GoodParams(r)) => response[r].status = 400

\* C9 amended: an invalid parameter (q absent or empty, maxResults outside
\* 1..25) is answered with status 422, the status of FastAPI's request
\* validation.
C9_InvalidIs422 ==
    \A r \in Requests :
        (pc[r] # "idle" /\ ~GoodParams(r)) => (pc[r] = "done" /\ response[r].status = 422)

\* an empty q was answered 422
C9_Witness ==
    \E r \in Requests :
        pc[r] = "done" /\ q[r] = "" /\ response[r].status = 422

\* C10: with several requests in flight, each request makes at most one
\* search call and then at most one detail-lookup call; the detail-lookup
\* call is made only after that request's search returned 200 with video
\* ids, and its id parameter is the comma-joined ids of that request's own
\* search response, sent with that request's key.
C10_TwoSequentialCallsPerRequest ==
    \A r \in Requests :
        /\ Len(calls[r]) <= 2
        /\ CountCalls(r, SearchUrl) <= 1
        /\ CountCalls(r, VideosUrl) <= 1
        /\ \A n \in 1..Len(calls[r]) :
              IsVideosCall(calls[r][n]) =>
                  /\ n = 2 /\ IsSearchCall(calls[r][1])
                  /\ s_res[r].status_code = StatusOK
                  /\ VideoIdsOf(s_res[r].items) # <<>>
                  /\ calls[r][n].params.id = Join(VideoIdsOf(s_res[r].items))
                  /\ calls[r][n].params.key = calls[r][1].params.key

\* two requests are both waiting for their detail lookups, of different ids
C10_Witness ==
    \E r1, r2 \in Requests :
        /\ r1 # r2
        /\ pc[r1] = "videos" /\ pc[r2] = "videos"
        /\ Len(calls[r1]) = 2 /\ Len(calls[r2]) = 2
        /\ calls[r1][2].params.id = <<"a", ",", "b">>
        /\ calls[r2][2].params.id = <<"b">>

-----------------------------------------------------------------------------
(* iso8601_to_hms on its own: the argument is drawn at Init, Convert calls it *)

MaxDurationLen == 4     \* longest argument built from DurationAlphabet

DurationAlphabet == {"P", "T", "H", "M", "S", "D", "1", "9"}

NotCalled == <<"not called">>

\* "PT" + [h "H"] + [m "M"] + [s "S"] + tail, a number of -1 standing for a
\* component that is left out
Component(n, unit) == IF n < 0 THEN <<>> ELSE Dec(n) \o <<unit>>

BuiltDurations ==
    {<<"P", "T">> \o Component(h, "H") \o Component(m, "M") \o Component(sec, "S") \o tail :
        h \in {-1, 0, 1, 25}, m \in {-1, 5, 59, 90}, sec \in {-1, 0, 9, 3600},
        tail \in {<<>>, <<"x">>, <<"7">>, <<"3", "H">>}}

DurationInputs == SeqsUpTo(DurationAlphabet, MaxDurationLen) \cup BuiltDurations

InitDuration ==
    /\ duration \in DurationInputs
    /\ hms = NotCalled
    /\ env = [YT_API_KEY |-> None, YOUTUBE_API_KEY |-> None,
              DATABASE_URL |-> None, DATABASE_NAME |-> None]
    /\ pc = <<>> /\ q = <<>> /\ maxResults = <<>> /\ api_key = <<>> /\ s_res = <<>>
    /\ ids = <<>> /\ v_res = <<>> /\ response = <<>> /\ calls = <<>>
    /\ thumbs = IdleThumbs /\ thumb = None
    /\ database = IdleDatabase /\ probe = NoProbe

Convert ==
    /\ hms = NotCalled
    /\ hms' = iso8601_to_hms(duration)
    /\ UNCHANGED <<duration, thumbs, thumb, database, probe>>
    /\ UNCHANGED searchVars

NextDuration == Convert

SpecDuration == InitDuration /\ [][NextDuration]_vars

\* a non-empty run of digits followed by unit, or nothing
IsComponent(seg, unit) ==
    \/ seg = <<>>
    \/ /\ Len(seg) >= 2
       /\ seg[Len(seg)] = unit
       /\ \A n \in 1..(Len(seg) - 1) : seg[n] \in Digits

ComponentValue(seg) == IF seg = <<>> THEN 0 ELSE ParseInt(SubSeq(seg, 1, Len(seg) - 1))

\* the ways to cut d into "PT", an H component, an M component and an S component
Cuts(d) ==
    IF Len(d) < 2 \/ SubSeq(d, 1, 2) # <<"P", "T">> THEN {}
    ELSE {c \in (2..Len(d)) \X (2..Len(d)) :
             /\ c[1] <= c[2]
             /\ IsComponent(SubSeq(d, 3, c[1]), "H")
             /\ IsComponent(SubSeq(d, c[1] + 1, c[2]), "M")
             /\ IsComponent(SubSeq(d, c[2] + 1, Len(d)), "S")}

\* d is of the form PT[<h>H][<m>M][<s>S]
IsDurationForm(d) == Cuts(d) # {}

TwoDigits(n) == <<DigitChar(n \div 10), DigitChar(n % 10)>>

\* the reference of C6
ReferenceHms(d) ==
    IF ~IsDurationForm(d) THEN <<"0", ":", "0", "0">>
    ELSE LET c == CHOOSE x \in Cuts(d) : TRUE
             total == ComponentValue(SubSeq(d, 3, c[1])) * 3600
                        + ComponentValue(SubSeq(d, c[1] + 1, c[2])) * 60
                        + ComponentValue(SubSeq(d, c[2] + 1, Len(d)))
             hh == total \div 3600
             mm == (total % 3600) \div 60
             ss == total % 60
         IN IF hh > 0
            THEN Dec(hh) \o <<":">> \o TwoDigits(mm) \o <<":">> \o TwoDigits(ss)
            ELSE Dec(mm) \o <<":">> \o TwoDigits(ss)

Iso_AgreesWhereFullMatch ==
    (hms # NotCalled /\ (IsDurationForm(duration) \/ ~ReMatch(duration).matched)) =>
        hms = ReferenceHms(duration)

\* Text after the longest PT[<h>H][<m>M][<s>S] prefix is ignored.
Iso_PrefixOnly ==
    hms # NotCalled =>
        \A n \in 0..Len(duration) :
            (IsDurationForm(SubSeq(duration, 1, n))
                /\ \A k \in (n + 1)..Len(duration) : ~IsDurationForm(SubSeq(duration, 1, k)))
            => hms = ReferenceHms(SubSeq(duration, 1, n))

-----------------------------------------------------------------------------
(* The thumbnail of one detail record: its thumbnails are drawn at Init,    *)
(* BuildSummary builds the record's entry of details                        *)

ThumbKeys == {"maxres", "standard", "high", "medium", "default"}

UrlOf(k) ==
    CASE k = "maxres" -> "maxres-url" [] k = "standard" -> "standard-url"
      [] k = "high" -> "high-url" [] k = "medium" -> "medium-url"
      [] k = "default" -> "default-url"

\* what thumbnails[k] can be: left out, {}, {"url": ...}, {"width": ...}
ThumbShapes(k) == IF k = "standard" THEN {"absent", "url"} ELSE {"absent", "empty", "url", "nourl"}

ThumbEntry(k, shape) ==
    CASE shape = "empty" -> EmptyDict
      [] shape = "url" -> [url |-> UrlOf(k), width |-> "120"]
      [] shape = "nourl" -> [width |-> "120"]

ThumbInputs ==
    {[k \in {x \in ThumbKeys : c[x] # "absent"} |-> ThumbEntry(k, c[k])] :
        c \in {f \in [ThumbKeys -> {"absent", "empty", "url", "nourl"}] :
                  \A k \in ThumbKeys : f[k] \in ThumbShapes(k)}}

NotBuilt == "not built"

InitThumb ==
    /\ thumbs \in ThumbInputs
    /\ thumb = NotBuilt
    /\ env = [YT_API_KEY |-> None, YOUTUBE_API_KEY |-> None,
              DATABASE_URL |-> None, DATABASE_NAME |-> None]
    /\ pc = <<>> /\ q = <<>> /\ maxResults = <<>> /\ api_key = <<>> /\ s_res = <<>>
    /\ ids = <<>> /\ v_res = <<>> /\ response = <<>> /\ calls = <<>>
    /\ duration = IdleDuration /\ hms = <<>>
    /\ database = IdleDatabase /\ probe = NoProbe

BuildSummary ==
    /\ thumb = NotBuilt
    /\ thumb' = Summary([id |-> "a", snippet |-> [title |-> "t", thumbnails |-> thumbs]]).thumb
    /\ UNCHANGED <<duration, hms, thumbs, database, probe>>
    /\ UNCHANGED searchVars

NextThumb == BuildSummary

SpecThumb == InitThumb /\ [][NextThumb]_vars

Preference == <<"maxres", "high", "medium", "default">>

\* an entry is available when thumbnails holds it and it is not an empty object
Available(t) == {n \in 1..Len(Preference) :
                    Preference[n] \in DOMAIN t /\ t[Preference[n]] # EmptyDict}

\* C7: the thumbnail of a record is the url of its first available entry
\* in the order maxres, high, medium, default (an entry is available when
\* the record holds it and it is not empty), and null when none is available.
C7_FirstAvailableThumbnail ==
    thumb # NotBuilt =>
        IF Available(thumbs) = {} THEN thumb = None
        ELSE LET first == CHOOSE n \in Available(thumbs) : \A m \in Available(thumbs) : n <= m
             IN thumb = Get(thumbs[Preference[first]], "url")

\* only high and default: high is chosen
C7_Witness ==
    /\ DOMAIN thumbs = {"high", "default"}
    /\ thumb = "high-url"

-----------------------------------------------------------------------------
(* test_database: GET /test. database says what the optional module does in *)
(* this process: import is what `from database import db` does (raises an   *)
(* ImportError, raises another Exception, binds db to None, binds db to a   *)
(* handle), name what db.name does, list what db.list_collection_names()    *)
(* does, message the str() of the exception raised, collections the list    *)
(* returned. The status texts are the source's without their emoji.         *)

MessageSlice == 50      \* str(e)[:50]
CollectionSlice == 10   \* collections[:10]
MaxMessageLen == 51     \* longest str(e)
MaxCollections == 11    \* most collections in the database

NoException == [type |-> "none", message |-> <<>>]

\* isinstance(exc, cls) for the two classes the handlers name
IsInstance(type, cls) ==
    \/ type = cls
    \/ cls = "Exception" /\ type \in {"ImportError", "Exception"}

\* an outer try whose only handler is `except ImportError`
OuterHandlerImportErrorOnly(type) ==
    IF IsInstance(type, "ImportError") THEN "ImportError" ELSE "none"

\* the handler of the outer try that takes an exception: except ImportError,
\* then except Exception
OuterHandler(type) ==
    IF IsInstance(type, "ImportError") THEN "ImportError"
    ELSE IF IsInstance(type, "Exception") THEN "Exception"
    ELSE "none"

\* the inner try has one handler, except Exception
InnerHandler(type) == IF IsInstance(type, "Exception") THEN "Exception" ELSE "none"

InitialResponse ==
    [backend |-> "Running",
     database |-> <<"Not Available">>,
     database_url |-> None,
     database_name |-> None,
     connection_status |-> "Not Connected",
     collections |-> <<>>]

\* lines 49-54: the inner try
InnerTry(resp, db) ==
    IF db.list = "ok"
    THEN [raised |-> NoException,
          response |-> [resp EXCEPT !.collections = Take(db.collections, CollectionSlice),
                                    !.database = <<"Connected & Working">>]]
    ELSE IF InnerHandler(db.list) = "Exception"
    THEN [raised |-> NoException,
          response |-> [resp EXCEPT !.database = <<"Connected but Error: ">>
                                                    \o Take(db.message, MessageSlice)]]
    ELSE [raised |-> [type |-> db.list, message |-> db.message], response |-> resp]

\* lines 41-56: the body of the outer try
OuterBody(db) ==
    IF db.import \in {"ImportError", "Exception"}
    THEN [raised |-> [type |-> db.import, message |-> db.message], response |-> InitialResponse]
    ELSE IF db.import = "None"
    THEN [raised |-> NoException,
          response |-> [InitialResponse EXCEPT !.database = <<"Available but not initialized">>]]
    ELSE LET r1 == [InitialResponse EXCEPT !.database = <<"Available">>,
                                           !.database_url = "Configured"]
         IN IF db.name = "raises"
            THEN [raised |-> [type |-> "Exception", message |-> db.message], response |-> r1]
            ELSE InnerTry([r1 EXCEPT !.database_name =
                                         IF db.name = "present" THEN "db.name" ELSE "Connected",
                                     !.connection_status = "Connected"], db)

\* lines 40-61: the outer try with its handlers
OuterTry(db) ==
    LET body == OuterBody(db) IN
    IF body.raised = NoException THEN body
    ELSE IF OuterHandler(body.raised.type) = "ImportError"
    THEN [raised |-> NoException,
          response |-> [body.response EXCEPT !.database =
                            <<"Database module not found (run enable-database first)">>]]
    ELSE IF OuterHandler(body.raised.type) = "Exception"
    THEN [raised |-> NoException,
          response |-> [body.response EXCEPT !.database =
                            <<"Error: ">> \o Take(body.raised.message, MessageSlice)]]
    ELSE body

\* "Set" if os.getenv(name) else "Not Set"
SetOrNot(v) == IF Truthy(v) THEN "Set" ELSE "Not Set"

\* the whole handler: what the client of GET /test receives
test_database(db, e) ==
    LET t == OuterTry(db) IN
    IF t.raised # NoException
    THEN [status |-> StatusInternalError, backend |-> None, database |-> <<>>,
          database_url |-> None, database_name |-> None, connection_status |-> None,
          collections |-> <<>>]
    ELSE [status |-> StatusOK,
          backend |-> t.response.backend,
          database |-> t.response.database,
          database_url |-> SetOrNot(e.DATABASE_URL),
          database_name |-> SetOrNot(e.DATABASE_NAME),
          connection_status |-> t.response.connection_status,
          collections |-> t.response.collections]

Messages == {[n \in 1..k |-> "e"] : k \in 0..MaxMessageLen}

CollectionLists == {[n \in 1..k |-> n] : k \in 0..MaxCollections}

ExceptionTypes == {"ImportError", "Exception"}

Databases ==
    {[import |-> t, name |-> "absent", list |-> "ok", message |-> m, collections |-> <<>>] :
        t \in ExceptionTypes, m \in Messages}
    \cup {[import |-> "None", name |-> "absent", list |-> "ok", message |-> <<>>,
           collections |-> <<>>]}
    \cup {[import |-> "db", name |-> "raises", list |-> "ok", message |-> m, collections |-> <<>>] :
        m \in Messages}
    \cup {[import |-> "db", name |-> n, list |-> "ok", message |-> <<>>, collections |-> c] :
        n \in {"absent", "present"}, c \in CollectionLists}
    \cup {[import |-> "db", name |-> n, list |-> t, message |-> m, collections |-> <<>>] :
        n \in {"absent", "present"}, t \in ExceptionTypes, m \in Messages}

InitTest ==
    /\ database \in Databases
    /\ probe = NoProbe
    /\ env \in [YT_API_KEY : {None}, YOUTUBE_API_KEY : {None},
                DATABASE_URL : EnvValues("mongodb://db"), DATABASE_NAME : EnvValues("app")]
    /\ pc = <<>> /\ q = <<>> /\ maxResults = <<>> /\ api_key = <<>> /\ s_res = <<>>
    /\ ids = <<>> /\ v_res = <<>> /\ response = <<>> /\ calls = <<>>
    /\ duration = IdleDuration /\ hms = <<>>
    /\ thumbs = IdleThumbs /\ thumb = None

\* GET /test is served
TestDatabase ==
    /\ probe = NoProbe
    /\ probe' = test_database(database, env)
    /\ UNCHANGED <<duration, hms, thumbs, thumb, database>>
    /\ UNCHANGED searchVars

NextTest == TestDatabase

SpecTest == InitTest /\ [][NextTest]_vars

\* C8: GET /test answers with success and the diagnostic object whatever the
\* database module does: not importable, import raising another exception,
\* db None, db listing its collections, db raising when asked to.
C8_TestNeverFails ==
    probe # NoProbe =>
        /\ probe.status = 200
        /\ probe.backend = "Running"
        /\ probe.database # <<>>
        /\ probe.database_url \in {"Set", "Not Set"}
        /\ probe.database_name \in {"Set", "Not Set"}
        /\ probe.connection_status \in {"Connected", "Not Connected"}
        /\ Len(probe.collections) <= 10

\* the import raised an exception that is no ImportError, with a message
\* longer than the slice, and the answer is a success that carries its
\* first 50 characters
C8_Witness ==
    /\ database.import = "Exception"
    /\ Len(database.message) = 51
    /\ probe.status = 200
    /\ probe.database = <<"Error: ">> \o [n \in 1..50 |-> "e"]

=============================================================================
